---- MODULE Spec2Model ----
(***************************************************************************)
(* ProjectedStreamLines (src/improved_vector_field.py): the stream-line    *)
(* integrator run by the constructor and the flow animator                 *)
(* (start_animation / per-frame updater / end_animation).                  *)
(*                                                                         *)
(* Numbers are integers.  Positions are counted in units of 1/args.unit:   *)
(* 1/8 everywhere but in the sink scenario, so that the default step 0.5   *)
(* is 4 units and the default noise factor (step / 2) and its half are     *)
(* whole numbers.  Times (dt, virtual_time, phases, durations) are counted *)
(* in ticks; a rendered frame is one tick.  The sink scenario (SpecSink)   *)
(* has finer position units of its own, SinkUnit to length 1.              *)
(*                                                                         *)
(* Specifications: SpecBuild runs the constructor on arguments from        *)
(* ArgSpace, SpecTwoBuilds runs it twice with np.random used in between,   *)
(* SpecSink runs it on the sink scenario, SpecRanges runs it on range      *)
(* lists the caller keeps and passes again, Spec runs create,              *)
(* start_animation, frames and end_animation on a built container, and     *)
(* SpecPlay adds a scene that plays the groups end_animation returns.      *)
(***************************************************************************)
EXTENDS Integers, Sequences, FiniteSets, TLC

VARIABLES
    pc,              \* "new" before __init__ has run, "built" after it
    args,            \* the constructor's arguments
    heap,            \* the range list objects the caller keeps
    refs,            \* per axis, the object of heap passed as its range, or
                     \* 0 when the range is a list literal (its value in args)
    rng,             \* the stream np.random yields after np.random.seed(0)
    np_state,        \* numpy's global generator: its last seed, draws since
    builds,          \* one record per constructor call made so far
    ranges,          \* self.ranges = [x_range, y_range, z_range], normalised
    lines,           \* the line objects: seed, raw trajectory, points, duration
    stream_lines,    \* self.stream_lines: line ids in insertion order
    submobjects,     \* self.submobjects: the container's children
    updaters,        \* self.updaters: the per-frame callbacks registered
    flow_animation,  \* self.flow_animation: the active-flow marker
    flow_speed,      \* self.flow_speed (0 while the attribute is not set)
    time,            \* line.time of every line that has the attribute
    anim,            \* line.anim of every line that has the attribute
    closures,        \* number of updater closures created so far
    group,           \* the group returned by end_animation that the caller keeps
    scene,           \* the group the scene is playing, the frame it is at
    paced,           \* since the last start no update has advanced a phase by
                     \* more than virtual_time and no finishing sequence has
                     \* advanced one
    last             \* the most recent call and what it returned or raised

vars == <<pc, args, heap, refs, rng, np_state, builds, ranges, lines, stream_lines, submobjects,
          updaters, flow_animation, flow_speed, time, anim, closures, group, scene, paced, last>>

build_vars == <<pc, args, heap, refs, rng, np_state, builds, ranges, lines, stream_lines>>

----------------------------------------------------------------------------
(* Bounds of the model *)

\* number of values a draw of np.random.random takes: k / RandRes, k < RandRes
RandRes == 2
\* the random stream repeats with this period
RngPeriod == 3
\* largest padding argument tried
MaxPadding == 2
\* largest max_anchors_per_line argument tried
MaxAnchors == 3
\* largest n_repeats argument tried
MaxRepeats == 2

\* line 134: the step appended to a 2-element range, 0.5; a.unit is length 1
\* in the position units of the arguments a
DefaultStep(a) == a.unit \div 2

----------------------------------------------------------------------------
(* Helpers *)

Max(a, b) == IF a >= b THEN a ELSE b

\* ceil(a / b) for b > 0
CeilDiv(a, b) == -((-a) \div b)

\* np.arange(lo, hi, st) for st > 0: lo, lo + st, ... while < hi
Arange(lo, hi, st) ==
    LET n == IF hi > lo THEN CeilDiv(hi - lo, st) ELSE 0
    IN  [i \in 1..n |-> lo + (i - 1) * st]

----------------------------------------------------------------------------
(* The constructor *)

\* lines 132-135: a 2-element range gets the default step; the upper bound
\* is then moved up by the step.
NormalizeRange(a, r) ==
    LET r3 == IF Len(r) = 2 THEN r \o <<DefaultStep(a)>> ELSE r
    IN  [r3 EXCEPT ![2] = r3[2] + r3[3]]

\* every axis is passed as a list literal
NoRefs == <<0, 0, 0>>

\* lines 116-130: the list objects in reach of the constructor: the caller's
\* (h), then one fresh list per axis holding the literal passed for it.  A
\* missing z_range is a fresh [0, 0] in 2D mode.
Store(h, a) ==
    h \o <<a.x_range, a.y_range, IF a.z_range # <<>> THEN a.z_range ELSE <<0, 0>>>>

\* lines 116-130: the object self.ranges[j] refers to
Address(h, rf, j) == IF rf[j] # 0 THEN rf[j] ELSE Len(h) + j

\* lines 132-135: the loop over self.ranges from axis j on; it extends and
\* updates the list object of each axis in place
RECURSIVE NormalizeInPlace(_, _, _, _, _)
NormalizeInPlace(a, st, h, rf, j) ==
    IF j > 3 THEN st
    ELSE NormalizeInPlace(a, [st EXCEPT ![Address(h, rf, j)] = NormalizeRange(a, @)],
                          h, rf, j + 1)

\* line 137: self.x_range, self.y_range, self.z_range after the loop
SelfRanges(h, a, rf) ==
    LET st == NormalizeInPlace(a, Store(h, a), h, rf, 1)
    IN  [j \in 1..3 |-> st[Address(h, rf, j)]]

\* the caller's list objects after the constructor has returned
HeapAfter(h, a, rf) ==
    SubSeq(NormalizeInPlace(a, Store(h, a), h, rf, 1), 1, Len(h))

\* lines 116-137: self.ranges of a call that passes list literals
Ranges(a) == SelfRanges(<<>>, a, NoRefs)

\* lines 149-151: the noise_factor argument, or y step / 2 when it is None
\* (None is modelled as -1).
noise_factor(a, R) ==
    IF a.noise_factor # -1 THEN a.noise_factor ELSE R[2][3] \div 2

\* line 158
half_noise(a, R) == noise_factor(a, R) \div 2

\* the k-th draw (k = 0, 1, ...) of the stream after np.random.seed(0)
Draw(r, k) == r[(k % Len(r)) + 1]

\* noise_factor * np.random.random(): a draw d stands for d / RandRes
Noise(a, R, r, k) == (noise_factor(a, R) * Draw(r, k)) \div RandRes

\* lines 160-171: one seed per (repeat, x, y, z), z varying fastest, each
\* taking the next three draws of the stream.
start_points(a, R, r) ==
    LET xs == Arange(R[1][1], R[1][2], R[1][3])
        ys == Arange(R[2][1], R[2][2], R[2][3])
        zs == Arange(R[3][1], R[3][2], R[3][3])
        n  == a.n_repeats * Len(xs) * Len(ys) * Len(zs)
        hn == half_noise(a, R)
    IN  [k \in 1..n |->
           LET j  == k - 1
               z  == zs[(j % Len(zs)) + 1]
               y  == ys[((j \div Len(zs)) % Len(ys)) + 1]
               x  == xs[((j \div (Len(zs) * Len(ys))) % Len(xs)) + 1]
           IN  << (x - hn) + Noise(a, R, r, 3 * j),
                  (y - hn) + Noise(a, R, r, 3 * j + 1),
                  (z - hn) + Noise(a, R, r, 3 * j + 2) >>]

\* outside_box with the upper test made against the expanded bound
outside_box_expanded(p, R, pad) ==
    \/ p[1] < R[1][1] - pad
    \/ p[1] > R[1][2] + pad
    \/ p[2] < R[2][1] - pad
    \/ p[2] > R[2][2] + pad
    \/ p[3] < R[3][1] - pad
    \/ p[3] > R[3][2] + pad

\* lines 173-181
outside_box(p, R, pad) ==
    \/ p[1] < R[1][1] - pad
    \/ p[1] > R[1][2] + pad - R[1][3]
    \/ p[2] < R[2][1] - pad
    \/ p[2] > R[2][2] + pad - R[2][3]
    \/ p[3] < R[3][1] - pad
    \/ p[3] > R[3][2] + pad - R[3][3]

\* The caller's vector field func(p), as the displacement per tick.
\* "sink2d" is f(x, y) = (-x, -y) where a tick is 0.05: -p / 20 per tick.
Field(f, p) ==
    CASE f = "right"  -> <<2, 0, 0>>
      [] f = "left"   -> <<-2, 0, 0>>
      [] f = "up"     -> <<0, 1, 0>>
      [] f = "sink"   -> <<-p[1], -p[2], -p[3]>>
      [] f = "sink2d" -> <<-(p[1] \div 20), -(p[2] \div 20), 0>>
      [] f = "source" -> <<p[1], p[2], p[3]>>

\* EulerStep that steps against the field
EulerStep_backward(a, p) ==
    LET v == Field(a.func, p)
    IN  <<p[1] - a.dt * v[1], p[2] - a.dt * v[2], p[3] - a.dt * v[3]>>

\* line 196: one forward Euler step
EulerStep(a, p) ==
    LET v == Field(a.func, p)
    IN  <<p[1] + a.dt * v[1], p[2] + a.dt * v[2], p[3] + a.dt * v[3]>>

\* line 183
max_steps(a) == CeilDiv(a.virtual_time, a.dt) + 1

\* Extend with the test after the append: the point that leaves the box is
\* stored before the loop stops
RECURSIVE Extend_stores_last(_, _, _, _)
Extend_stores_last(a, R, points, k) ==
    IF k = 0 THEN points
    ELSE LET new_point == EulerStep(a, points[Len(points)])
         IN  IF outside_box(new_point, R, a.padding) THEN Append(points, new_point)
             ELSE Extend_stores_last(a, R, Append(points, new_point), k - 1)

\* lines 194-199: extend the trajectory by at most k more steps; stop at
\* the first new point that is outside the box, without storing it.
RECURSIVE Extend(_, _, _, _)
Extend(a, R, points, k) ==
    IF k = 0 THEN points
    ELSE LET new_point == EulerStep(a, points[Len(points)])
         IN  IF outside_box(new_point, R, a.padding) THEN points
             ELSE Extend(a, R, Append(points, new_point), k - 1)

\* lines 193-199
Trajectory(a, R, point) == Extend(a, R, <<point>>, max_steps(a))

\* line 200: the step count a line's duration and the drop test use
StepCount(a, points) == max_steps(a)

\* lines 201-202: the trajectory is skipped when the step count is 0
Dropped(a, points) == StepCount(a, points) = 0

\* line 205
Stride(a, points) == Max(1, Len(points) \div a.max_anchors_per_line)

\* points[::step]
Downsample(points, step) ==
    [i \in 1..CeilDiv(Len(points), step) |-> points[(i - 1) * step + 1]]

\* the caller's projection proj(p): lays the point on the surface
\* z = x^2/2 + y^2/4 (src/lyapunov.py proj_lyap); with x and y in units of
\* 1/8 the height is counted in units of 1/256
proj(p) == <<p[1], p[2], 2 * p[1] * p[1] + p[2] * p[2]>>

\* line 206, proj(p): the caller passes proj_lyap or the identity
Project(a, p) == IF a.proj = "flat" THEN p ELSE proj(p)

\* lines 203-207: the line object built from one trajectory
Line(a, point, points) ==
    [ seed       |-> point,
      trajectory |-> points,
      duration   |-> StepCount(a, points) * a.dt,
      points     |-> LET kept == Downsample(points, Stride(a, points))
                     IN  [i \in 1..Len(kept) |-> Project(a, kept[i])] ]

\* lines 192-232: the lines of all seeds, dropped ones left out
RECURSIVE BuildLines(_, _, _, _)
BuildLines(a, R, seeds, k) ==
    IF k > Len(seeds) THEN <<>>
    ELSE LET points == Trajectory(a, R, seeds[k])
             rest   == BuildLines(a, R, seeds, k + 1)
         IN  IF Dropped(a, points) THEN rest
             ELSE <<Line(a, seeds[k], points)>> \o rest

\* the arguments tried
XRanges == { <<0, 0>>, <<-4, 0, 4>> }
YRanges == { <<0, 0>>, <<0, 4, 8>> }
Fields  == { "right", "left", "up", "sink", "source" }
Streams == [1..RngPeriod -> 0..(RandRes - 1)]

ArgSpace ==
    [ unit                 : { 8 },
      func                 : Fields,
      x_range              : XRanges,
      y_range              : YRanges,
      z_range              : { <<>> },
      noise_factor         : { -1, 0 },
      n_repeats            : 1..MaxRepeats,
      dt                   : { 1, 2 },
      virtual_time         : { 2, 3 },
      max_anchors_per_line : 1..MaxAnchors,
      padding              : 0..MaxPadding,
      proj                 : { "lyap" } ]

\* the value of an attribute that was never assigned, and Python's None
NoAttr == [kind |-> "absent", id |-> 0, flow_speed |-> 0]
None   == [kind |-> "None", id |-> 0, flow_speed |-> 0]

\* The record of a call.  warm_up is the warm_up argument of the most recent
\* start_animation; prev, kept for end_animation only, is the call before it;
\* started tells whether start_animation was called since construction or
\* since the last successful end_animation; animations is what the call
\* returned; lag_ratio (create) is a fraction, <<0, 1>> when not computed;
\* handoff (play) is the progress each finishing line shows when its
\* finishing sequence makes its last call.
NoCall(op) ==
    [op |-> op, outcome |-> "ok", warm_up |-> FALSE, prev |-> "", animations |-> <<>>,
     started |-> FALSE, lag_ratio |-> <<0, 1>>, handoff |-> <<>>]

PrevTag ==
    IF last.op # "end_animation" THEN last.op
    ELSE IF last.outcome = "ok" THEN "end_ok" ELSE "end_failed"

Call(op, outcome) ==
    [op |-> op, outcome |-> outcome, warm_up |-> last.warm_up,
     prev |-> IF op = "end_animation" THEN PrevTag ELSE "", animations |-> <<>>,
     started |-> IF op = "start_animation" THEN TRUE
                 ELSE IF op = "end_animation" /\ outcome = "ok" THEN FALSE
                 ELSE last.started,
     lag_ratio |-> <<0, 1>>, handoff |-> <<>>]

\* largest number of constructor calls in one process
MaxBuilds == 2

\* The states of numpy's global generator: the seed it was last given (0, or
\* 1 for any other seed or none) and the number of draws made since.
NpStates == [seed : {0, 1}, pos : 0..(RngPeriod - 1)]

\* the stream a seed yields: rng for seed 0, another stream otherwise
SeedStream(seed) ==
    IF seed = 0 THEN rng ELSE [k \in 1..RngPeriod |-> (RandRes - 1) - rng[k]]

\* the draws np.random.random yields from the generator state st on
StreamFrom(st) ==
    [k \in 1..RngPeriod |-> SeedStream(st.seed)[((st.pos + k - 1) % RngPeriod) + 1]]

\* a constructor that draws from the generator as it finds it
SeededState_unseeded == np_state

\* line 159, np.random.seed(0): the generator state the seeds are drawn from
SeededState == [seed |-> 0, pos |-> 0]

\* the generator state after n further draws
Drawn(st, n) == [st EXCEPT !.pos = (st.pos + n) % RngPeriod]

\* lines 192-233: the lines the constructor builds from (a, r)
ConstructedLines(a, R, r) ==
    BuildLines(a, R, start_points(a, R, r), 1)

\* the caller passes list literals only
Literals ==
    /\ heap = <<>>
    /\ refs = NoRefs

\* the scene plays no group
NoPlay == [playing |-> <<>>, frame |-> -1, handoff |-> <<>>]

\* what no constructor has touched yet
Blank ==
    /\ group = <<>>
    /\ scene = NoPlay
    /\ submobjects = <<>>
    /\ updaters = <<>>
    /\ flow_animation = NoAttr
    /\ flow_speed = 0
    /\ time = <<>>
    /\ anim = <<>>
    /\ closures = 0
    /\ paced = TRUE

InitBuild ==
    /\ pc = "new"
    /\ args \in ArgSpace
    /\ Literals
    /\ rng \in Streams
    /\ np_state = [seed |-> 1, pos |-> 0]
    /\ builds = <<>>
    /\ ranges = <<>>
    /\ lines = <<>>
    /\ stream_lines = <<>>
    /\ Blank
    /\ last = NoCall("none")

\* __init__, lines 116-233.  It assigns neither flow_animation nor
\* flow_speed, and no line has a time or an anim yet.
__init__ ==
    /\ pc' = "built"
    /\ ranges' = SelfRanges(heap, args, refs)
    /\ heap' = HeapAfter(heap, args, refs)
    /\ lines' = ConstructedLines(args, ranges', StreamFrom(SeededState))
    /\ np_state' = Drawn(SeededState, 3 * Len(start_points(args, ranges', rng)))
    /\ builds' = Append(builds, [np_before |-> np_state, lines |-> lines',
                                 heap |-> heap])
    /\ submobjects' = [i \in 1..Len(lines') |-> i]
    /\ stream_lines' = submobjects'
    /\ last' = Call("__init__", "ok")
    /\ UNCHANGED <<args, refs, rng, updaters, flow_animation, flow_speed, time, anim,
                   closures, group, scene, paced>>

\* the first constructor call of the process
Construct == pc = "new" /\ __init__

NextBuild == Construct

SpecBuild == InitBuild /\ [][NextBuild]_vars

----------------------------------------------------------------------------
(* Two builds from equal arguments, with other users of np.random between *)

\* a later constructor call with equal argument values (fresh range lists);
\* the earlier container is not used any more
Rebuild == pc = "built" /\ Len(builds) < MaxBuilds /\ __init__

\* np.random is seeded or drawn from elsewhere between two builds
np_random_elsewhere ==
    /\ pc = "built"
    /\ Len(builds) < MaxBuilds
    /\ \E st \in NpStates \ {np_state} : np_state' = st
    /\ UNCHANGED <<pc, args, heap, refs, rng, builds, ranges, lines, stream_lines,
                   submobjects, updaters, flow_animation, flow_speed, time, anim, closures,
                   group, scene, paced, last>>

RebuildArgs ==
    { a \in ArgSpace :
        /\ a.func = "right" /\ a.x_range = <<-4, 0, 4>> /\ a.y_range = <<0, 4, 8>>
        /\ a.dt = 1 /\ a.virtual_time = 2 /\ a.n_repeats = 1
        /\ a.max_anchors_per_line = 1 /\ a.padding = 2 }

\* a process in which np.random is in any state when the first build starts
InitTwoBuilds ==
    /\ pc = "new"
    /\ args \in RebuildArgs
    /\ Literals
    /\ rng \in Streams
    /\ np_state \in NpStates
    /\ builds = <<>>
    /\ ranges = <<>>
    /\ lines = <<>>
    /\ stream_lines = <<>>
    /\ Blank
    /\ last = NoCall("none")

NextTwoBuilds == Construct \/ np_random_elsewhere \/ Rebuild

SpecTwoBuilds == InitTwoBuilds /\ [][NextTwoBuilds]_vars

\* C11: builds from equal arguments return identical stream-line sets (the
\* same seeds in the same order, the same points per line), whatever state
\* np.random was in before each of them.
C11_BuildDeterminism ==
    \A i, j \in DOMAIN builds : builds[i].lines = builds[j].lines

\* two builds made from different generator states, the second after other
\* draws, with a seed that carries a nonzero draw
C11_Witness ==
    /\ Len(builds) = 2
    /\ builds[1].np_before # builds[2].np_before
    /\ builds[2].np_before # Drawn(SeededState, 3 * Len(lines))
    /\ args.noise_factor = -1
    /\ \E i \in DOMAIN lines : lines[i].seed[3] > -half_noise(args, ranges)

----------------------------------------------------------------------------
(* The flow animator *)

\* largest number of start_animation calls on one container
MaxStarts == 2
\* largest flow_speed argument tried
MaxFlowSpeed == 2
\* largest per-frame dt tried, in ticks
MaxDt == 2
\* no further frame is run once a phase is above this
MaxTime == 4

Lines == 1..Len(lines)

\* Mobject.add(m) as used in line 345: m becomes the last child, once
add(subs, m) == SelectSeq(subs, LAMBDA x : x # m) \o <<m>>

\* Mobject.remove(m) as used in lines 405 and 439
remove(subs, m) == SelectSeq(subs, LAMBDA x : x # m)

RECURSIVE AddAll(_, _)
AddAll(subs, ms) ==
    IF ms = <<>> THEN subs ELSE AddAll(add(subs, Head(ms)), Tail(ms))

RECURSIVE RemoveAll(_, _)
RemoveAll(subs, ms) ==
    IF ms = <<>> THEN subs ELSE RemoveAll(remove(subs, Head(ms)), Tail(ms))

\* remove_updater that removes nothing
remove_updater_none(us, f) == us

\* Mobject.remove_updater(f) as used in line 419: every registration of f
remove_updater(us, f) == SelectSeq(us, LAMBDA u : u # f)

\* Progress without the clip
Progress_unclipped(t, rt) == <<t * rt[2], rt[1]>>

\* np.clip(t / run_time, 0, 1) with run_time = rt[1] / rt[2], as a fraction
Progress(t, rt) ==
    IF t * rt[2] <= 0 THEN <<0, 1>>
    ELSE IF t * rt[2] >= rt[1] THEN <<1, 1>>
    ELSE <<t * rt[2], rt[1]>>

\* StartTime without the negation of line 344
StartTime_no_warm_up(ph, warm_up) == ph

\* lines 342-344: the phase a line starts with, from the draw ph of
\* random.random() * virtual_time
StartTime(ph, warm_up) == IF warm_up THEN -ph ELSE ph

\* UpdatedTime that wraps only above virtual_time
UpdatedTime_wraps_late(t, dt, fs) ==
    LET t1 == t + dt * fs
    IN  IF t1 > args.virtual_time THEN t1 - args.virtual_time ELSE t1

\* UpdatedTime without the wrap of lines 350-351
UpdatedTime_no_wrap(t, dt, fs) == t + dt * fs

\* lines 349-351: the phase of one line after the closure with the captured
\* flow speed fs has handled a frame of dt
UpdatedTime(t, dt, fs) ==
    LET t1 == t + dt * fs
    IN  IF t1 >= args.virtual_time THEN t1 - args.virtual_time ELSE t1

\* lines 348-351: one call of the closure with the captured flow speed fs;
\* it visits the lines one after the other, in the given order
RECURSIVE updater(_, _, _, _)
updater(order, t, dt, fs) ==
    IF order = <<>> THEN t
    ELSE updater(Tail(order),
                 [t EXCEPT ![Head(order)] = UpdatedTime(t[Head(order)], dt, fs)],
                 dt, fs)

\* lines 347-352 for every registered closure, in registration order
RECURSIVE RunUpdaters(_, _, _)
RunUpdaters(us, t, dt) ==
    IF us = <<>> THEN t
    ELSE RunUpdaters(Tail(us), updater(stream_lines, t, dt, Head(us).flow_speed), dt)

\* WindDown that holds only the lines of negative phase
WindDown_negative_only(t) == IF t < 0 THEN "hold" ELSE "finish"

\* line 428: which sequence end_animation gives a line of phase t
WindDown(t) == IF t <= 0 THEN "hold" ELSE "finish"

\* lines 422-452: the Succession end_animation builds for line i, an
\* UpdateFromAlphaFunc followed by the Create of lines 423-427; run_time is
\* the fraction run_time[1] / run_time[2]
Succession(i) ==
    IF WindDown(time[i]) = "hold"
    THEN [line |-> i, kind |-> "hold", run_time |-> <<-time[i], flow_speed>>,
          followed_by |-> "Create"]
    ELSE [line |-> i, kind |-> "finish",
          run_time |-> <<args.virtual_time - time[i], flow_speed>>,
          followed_by |-> "Create"]

\* end_animation that leaves the marker as it was
MarkerAfterEnd_kept == flow_animation

\* line 420
MarkerAfterEnd == None

\* the closure start_animation creates (lines 347-352): it captures flow_speed
Closure(fs) == [kind |-> "updater", id |-> closures + 1, flow_speed |-> fs]

\* start_animation that leaves the marker as it was
MarkerAfterStart_unset(fs) == flow_animation

\* line 355: the marker is the closure just registered
MarkerAfterStart(fs) == Closure(fs)

\* start_animation, lines 332-357
start_animation(warm_up, fs, ph) ==
    /\ pc = "built"
    /\ closures < MaxStarts
    /\ anim' = [i \in Lines |-> [run_time |-> <<lines[i].duration, fs>>, alpha |-> <<0, 1>>]]
    /\ time' = [i \in Lines |-> StartTime(ph[i], warm_up)]
    /\ submobjects' = AddAll(submobjects, stream_lines)
    /\ updaters' = Append(updaters, Closure(fs))
    /\ flow_animation' = MarkerAfterStart(fs)
    /\ flow_speed' = fs
    /\ closures' = closures + 1
    /\ paced' = TRUE
    /\ last' = [Call("start_animation", "ok") EXCEPT !.warm_up = warm_up]
    /\ UNCHANGED <<build_vars, group, scene>>

\* one rendered frame: Mobject.update(dt) calls every registered updater
\* (lines 347-352)
update(dt) ==
    /\ pc = "built"
    /\ updaters # <<>> => \A i \in DOMAIN time : time[i] <= MaxTime
    /\ time' = RunUpdaters(updaters, time, dt)
    /\ anim' = IF updaters = <<>> THEN anim
               ELSE [i \in DOMAIN anim |->
                       [anim[i] EXCEPT !.alpha = Progress(time'[i], anim[i].run_time)]]
    /\ paced' = (paced /\ \A k \in DOMAIN updaters :
                            dt * updaters[k].flow_speed <= args.virtual_time)
    /\ last' = Call("update", "ok")
    /\ UNCHANGED <<build_vars, submobjects, updaters, flow_animation, flow_speed, closures,
                   group, scene>>

\* end_animation, lines 392-453
end_animation ==
    /\ pc = "built"
    /\ \/ /\ flow_animation = NoAttr
          /\ last' = Call("end_animation", "AttributeError")
          /\ UNCHANGED <<submobjects, updaters, flow_animation, time, anim>>
       \/ /\ flow_animation = None
          /\ last' = Call("end_animation", "ValueError")
          /\ UNCHANGED <<submobjects, updaters, flow_animation, time, anim>>
       \/ /\ flow_animation.kind = "updater"
          /\ updaters' = remove_updater(updaters, flow_animation)
          /\ flow_animation' = MarkerAfterEnd
          /\ LET held == SelectSeq(stream_lines, LAMBDA i : WindDown(time[i]) = "hold")
             IN  /\ submobjects' = RemoveAll(submobjects, held)
                 /\ anim' = [i \in DOMAIN anim |->
                               IF WindDown(time[i]) = "hold"
                               THEN [anim[i] EXCEPT !.alpha = <<1, 1>>]
                               ELSE anim[i]]
          /\ last' = [Call("end_animation", "ok") EXCEPT
                        !.animations = [k \in DOMAIN stream_lines |-> Succession(stream_lines[k])]]
          /\ UNCHANGED time
    /\ UNCHANGED <<build_vars, flow_speed, closures, group, scene, paced>>

\* the caller keeps the group end_animation has just returned to it
keep_group ==
    /\ pc = "built"
    /\ last.op = "end_animation" /\ last.outcome = "ok"
    /\ group # last.animations
    /\ group' = last.animations
    /\ UNCHANGED <<build_vars, submobjects, updaters, flow_animation, flow_speed, time,
                   anim, closures, scene, paced, last>>

\* line 417: dt = 1 / config["frame_rate"], the length of a frame in ticks
frame_dt == 1

\* line 402: the phase after one call of finish_updater_cycle
FinishedTime(t) == t + frame_dt * flow_speed

\* line 403: min(t / run_time, 1) with run_time = rt[1] / rt[2], as a fraction
FinishProgress(t, rt) ==
    IF t * rt[2] >= rt[1] THEN <<1, 1>> ELSE <<t * rt[2], rt[1]>>

\* The frame in which a scene that plays an UpdateFromAlphaFunc of run time
\* rt[1] / rt[2] finishes it.  The scene calls its function once when the
\* animation begins (alpha 0), once in each of the frames 0, 1, 2, ... at
\* the times 0, frame_dt, 2 * frame_dt, ... below the run time (none when
\* the run time is not positive), and once, with alpha 1, in the first
\* frame that is not below it.
FinishFrame(rt) == Max(0, CeilDiv(rt[1], rt[2] * frame_dt))

\* the lines of the finishing sequences of group g
FinishingLines(g) == { g[n].line : n \in { m \in DOMAIN g : g[m].kind = "finish" } }

\* the sequence group g has for line i
SequenceOf(g, i) == CHOOSE a \in { g[n] : n \in DOMAIN g } : a.line = i

\* The scene starts to play the group the caller has kept, at any time after
\* end_animation has returned it: every animation begins.  A hold (lines 395-399) changes stroke
\* opacity only, and so does every Create; a finishing sequence calls
\* finish_updater_cycle (lines 401-403).  No new play is started once a
\* phase is above MaxTime.
play_begin ==
    /\ pc = "built"
    /\ group # <<>>
    /\ scene.frame = -1
    /\ \A i \in DOMAIN time : time[i] <= MaxTime
    /\ LET fin == FinishingLines(group)
       IN  /\ time' = [i \in DOMAIN time |->
                         IF i \in fin THEN FinishedTime(time[i]) ELSE time[i]]
           /\ anim' = [i \in DOMAIN anim |->
                         IF i \in fin
                         THEN [anim[i] EXCEPT
                                 !.alpha = FinishProgress(time'[i], anim[i].run_time)]
                         ELSE anim[i]]
    /\ scene' = [playing |-> group, frame |-> 0, handoff |-> <<>>]
    /\ paced' = (paced /\ FinishingLines(group) = {})
    /\ last' = Call("play", "begun")
    /\ UNCHANGED <<build_vars, submobjects, updaters, flow_animation, flow_speed,
                   closures, group>>

\* The scene renders one frame of the group it is playing: every finishing
\* sequence that has not finished calls finish_updater_cycle (lines
\* 401-403); the call of its finish frame has alpha 1, removes the line from
\* the container and finishes its animation (lines 404-406).  The play is
\* over with the frame in which the last finishing sequence finishes.
play_frame ==
    /\ pc = "built"
    /\ scene.frame >= 0
    /\ LET g == scene.playing
           k == scene.frame
           fin == FinishingLines(g)
           F(i) == FinishFrame(SequenceOf(g, i).run_time)
           cycling == { i \in fin : k <= F(i) }
           ending == { i \in fin : k = F(i) }
       IN  /\ time' = [i \in DOMAIN time |->
                         IF i \in cycling THEN FinishedTime(time[i]) ELSE time[i]]
           /\ anim' = [i \in DOMAIN anim |->
                         IF i \in ending THEN [anim[i] EXCEPT !.alpha = <<1, 1>>]
                         ELSE IF i \in cycling
                         THEN [anim[i] EXCEPT
                                 !.alpha = FinishProgress(time'[i], anim[i].run_time)]
                         ELSE anim[i]]
           /\ submobjects' = RemoveAll(submobjects,
                                       SelectSeq(stream_lines, LAMBDA i : i \in ending))
           /\ LET shown == [i \in (DOMAIN scene.handoff) \cup ending |->
                              IF i \in ending
                              THEN FinishProgress(time'[i], anim[i].run_time)
                              ELSE scene.handoff[i]]
              IN  IF \A i \in fin : k >= F(i)
                  THEN /\ scene' = NoPlay
                       /\ last' = [Call("play", "ok") EXCEPT !.handoff = shown]
                  ELSE /\ scene' = [scene EXCEPT !.frame = k + 1, !.handoff = shown]
                       /\ last' = Call("play", "frame")
           /\ paced' = (paced /\ cycling = {})
    /\ UNCHANGED <<build_vars, updaters, flow_animation, flow_speed, closures, group>>

\* line 283: run_time / 2 / n, as a fraction
LagRatio(run_time, n) == <<run_time, 2 * n>>

\* create() with neither lag_ratio nor run_time given, lines 280-289.
\* random.shuffle puts the Create animations in any order.
create ==
    /\ pc = "built"
    /\ IF Len(submobjects) = 0
       THEN last' = Call("create", "ZeroDivisionError")
       ELSE \E order \in Permutations(DOMAIN stream_lines) :
               last' = [Call("create", "ok") EXCEPT
                          !.lag_ratio = LagRatio(args.virtual_time, Len(submobjects)),
                          !.animations =
                              [k \in DOMAIN stream_lines |->
                                 [line |-> stream_lines[order[k]], kind |-> "Create",
                                  run_time |-> <<args.virtual_time, 1>>]]]
    /\ UNCHANGED <<build_vars, submobjects, updaters, flow_animation, flow_speed,
                   time, anim, closures, group, scene, paced>>

\* the containers the flow animator is run on
FlowArgs ==
    [unit : {8}, func : {"up"}, x_range : {<<0, 0>>}, y_range : {<<0, 0>>}, z_range : {<<>>},
     noise_factor : {-1}, n_repeats : {1, 2}, dt : {3}, virtual_time : {2, 3},
     max_anchors_per_line : {3}, padding : {2}, proj : {"lyap"}]

\* a container as the constructor leaves it
Init ==
    /\ pc = "built"
    /\ args \in FlowArgs
    /\ Literals
    /\ rng = [k \in 1..RngPeriod |-> 0]
    /\ ranges = Ranges(args)
    /\ lines = ConstructedLines(args, ranges, StreamFrom(SeededState))
    /\ np_state = Drawn(SeededState, 3 * Len(lines))
    /\ builds = <<[np_before |-> [seed |-> 1, pos |-> 0], lines |-> lines,
                   heap |-> heap]>>
    /\ stream_lines = [i \in 1..Len(lines) |-> i]
    /\ submobjects = stream_lines
    /\ updaters = <<>>
    /\ flow_animation = NoAttr
    /\ flow_speed = 0
    /\ time = <<>>
    /\ anim = <<>>
    /\ closures = 0
    /\ group = <<>>
    /\ scene = NoPlay
    /\ paced = TRUE
    /\ last = NoCall("__init__")

Next ==
    \/ \E warm_up \in BOOLEAN, fs \in 1..MaxFlowSpeed,
          ph \in [Lines -> 0..(args.virtual_time - 1)] :
          start_animation(warm_up, fs, ph)
    \/ \E dt \in 1..MaxDt : update(dt)
    \/ end_animation
    \/ create

Spec == Init /\ [][Next]_vars

\* the same calls, and a scene that plays the groups end_animation returns
\* frame by frame; the per-frame update and the other calls fall anywhere
\* between its frames
NextPlay ==
    \/ Next
    \/ keep_group
    \/ play_begin
    \/ play_frame

SpecPlay == Init /\ [][NextPlay]_vars

----------------------------------------------------------------------------
(* Properties of the flow animator, checked under Spec *)

Flowing == flow_animation.kind = "updater"

EndStep == last' # last /\ last'.op = "end_animation"

\* C1: end_animation while no flow is active (also on a container on which
\* start_animation was never called) raises ValueError and leaves the
\* phases, the registered callbacks and the marker as they were.
C1_EndWhileIdleIsValueError ==
    [][ (EndStep /\ ~Flowing) =>
           /\ last'.outcome = "ValueError"
           /\ UNCHANGED <<time, updaters, flow_animation>> ]_vars

\* C2: a successful end_animation leaves the marker None and the callback
\* the marker held registered nowhere, the other callbacks as they were; on
\* a container started once, frames after it change no phase.
C2_EndUnregisters ==
    /\ [][ (EndStep /\ last'.outcome = "ok") =>
              /\ flow_animation' = None
              /\ \A k \in DOMAIN updaters' : updaters'[k] # flow_animation
              /\ updaters' = SelectSeq(updaters, LAMBDA u : u # flow_animation) ]_vars
    /\ [][ (last'.op = "update" /\ ~Flowing /\ closures = 1) => time' = time ]_vars

C2_Witness ==
    /\ last.op = "end_animation" /\ last.outcome = "ok"
    /\ flow_animation = None /\ updaters = <<>>
    /\ \E i \in DOMAIN time : time[i] > 0

\* C3: an end_animation called right after a successful end_animation raises
\* ValueError and changes nothing of the container or its lines.
C3_SecondEndFailsCleanly ==
    [][ (last'.op = "end_animation" /\ last'.prev = "end_ok" /\ last' # last) =>
           /\ last'.outcome = "ValueError"
           /\ UNCHANGED <<time, anim, updaters, flow_animation, flow_speed,
                          submobjects, stream_lines, lines>> ]_vars

C3_Witness ==
    /\ last.op = "end_animation" /\ last.prev = "end_ok"
    /\ last.outcome = "ValueError"
    /\ closures = 1

\* C4 as stated: while a flow is active every phase is below virtual_time
\* and above -virtual_time, and is negative only after a start with warm-up,
\* whatever the frames' dt.
C4_PhaseWrapAnyDt ==
    Flowing =>
        \A i \in DOMAIN time :
            /\ time[i] < args.virtual_time
            /\ time[i] > -args.virtual_time
            /\ (~last.warm_up => time[i] >= 0)

\* C4 amended: the same, provided no frame since the start advanced a phase
\* by more than virtual_time (dt * flow_speed <= virtual_time for every
\* registered callback) and no finishing sequence of an earlier
\* end_animation was run since the start; and under that proviso a frame
\* takes a phase that is 0 or more to a phase in [0, virtual_time).
C4_PhaseWrapPaced ==
    /\ [](Flowing /\ paced =>
            \A i \in DOMAIN time :
                /\ time[i] < args.virtual_time
                /\ time[i] > -args.virtual_time
                /\ (~last.warm_up => time[i] >= 0))
    /\ [][ (last'.op = "update" /\ Flowing /\ paced') =>
              \A i \in DOMAIN time :
                  time[i] >= 0 => (time'[i] >= 0 /\ time'[i] < args.virtual_time) ]_vars

\* a phase has wrapped: started without warm-up, a paced frame took a line
\* back to 0
C4_Witness ==
    /\ Flowing /\ paced /\ last.op = "update" /\ ~last.warm_up
    /\ \E i \in DOMAIN time : time[i] = 0

\* C5: end_animation right after start_animation(warm_up=True) succeeds and
\* gives every line, in order, a hold-then-reveal sequence and no line a
\* finishing sequence.
C5_EndAfterWarmUpStartHoldsAll ==
    (last.op = "end_animation" /\ last.prev = "start_animation" /\ last.warm_up) =>
        /\ last.outcome = "ok"
        /\ Len(last.animations) = Len(stream_lines)
        /\ \A k \in DOMAIN last.animations :
              /\ last.animations[k].line = stream_lines[k]
              /\ last.animations[k].kind = "hold"

C5_Witness ==
    /\ last.op = "end_animation" /\ last.prev = "start_animation" /\ last.warm_up
    /\ Len(last.animations) = 2
    /\ time[1] = 0 /\ time[2] < 0

\* C13: create() called without a lag_ratio returns a group whose lag ratio
\* is runTime / (2 * lineCount), lineCount being the number of stream lines
\* the constructor built, in every state in which it is called.
C13_LagRatioByLineCount ==
    [][ (last' # last /\ last'.op = "create") =>
           /\ last'.outcome = "ok"
           /\ last'.lag_ratio[1] * (2 * Len(stream_lines))
                = args.virtual_time * last'.lag_ratio[2] ]_vars

\* C14: when the finishing sequence of a line that was flowing at
\* end_animation makes its last call, the progress min(phase / runTime, 1)
\* it shows has reached 1, so that the final finish makes no jump.
C14_FinishingReachesFullProgress ==
    (last.op = "play" /\ last.outcome = "ok") =>
        \A i \in DOMAIN last.handoff : last.handoff[i] = <<1, 1>>

\* the progress line i displays is clamp(phase / runTime, 0, 1), with
\* runTime = duration / flow_speed
ShowsPhase(i) ==
    LET a == anim[i].alpha
        t == time[i] * flow_speed
    IN  IF t <= 0 THEN a[1] = 0
        ELSE IF t >= lines[i].duration THEN a[1] = a[2]
        ELSE a[1] * lines[i].duration = t * a[2]

\* C15 as stated: in every Flowing state, also right after start_animation,
\* each line's displayed progress equals clamp(phase / runTime, 0, 1).
C15_ProgressFollowsPhase ==
    Flowing => \A i \in Lines : ShowsPhase(i)

\* C15, amended: in a Flowing state each line's displayed progress equals
\* clamp(phase / runTime, 0, 1) after every per-frame update; right after
\* start_animation it is 0 for every line, whatever its phase; no other call
\* of the container changes a displayed progress or a phase while the flow
\* goes on (a scene that plays the group of an earlier end_animation does).
C15_ProgressFollowsPhaseAfterFrame ==
    /\ [](Flowing =>
            \A i \in Lines :
                /\ anim[i].run_time[1] * flow_speed = lines[i].duration * anim[i].run_time[2]
                /\ last.op = "update" => ShowsPhase(i)
                /\ last.op = "start_animation" => anim[i].alpha[1] = 0)
    /\ [][ (Flowing /\ Flowing' /\ last'.op \notin {"update", "start_animation", "play"})
              => UNCHANGED <<time, anim>> ]_vars

\* a frame has just been handled and a line is shown part-way
C15_Witness ==
    /\ Flowing
    /\ last.op = "update"
    /\ \E i \in Lines : anim[i].alpha[1] > 0 /\ anim[i].alpha[1] < anim[i].alpha[2]
    /\ \E i \in Lines : time[i] < 0

\* C18: a per-frame update keeps the set of lines, their durations and run
\* times, the children, the registered callbacks and the marker; when the
\* flow's callback is the only one registered it sets each line's phase to
\* phase + dt * flow_speed, minus virtual_time once when that sum is
\* >= virtual_time, for one dt common to all lines, and visiting the lines
\* in any other order gives the same phases.
C18_FrameEffect ==
    [][ last'.op = "update" =>
          /\ UNCHANGED <<lines, stream_lines, submobjects, updaters, flow_animation,
                         flow_speed, closures>>
          /\ DOMAIN time' = DOMAIN time /\ DOMAIN anim' = DOMAIN anim
          /\ \A i \in DOMAIN anim : anim'[i].run_time = anim[i].run_time
          /\ updaters = <<flow_animation>> =>
                \E dt \in 1..MaxDt :
                    /\ \A i \in DOMAIN time :
                          LET sum == time[i] + dt * flow_speed
                          IN  time'[i] = IF sum >= args.virtual_time
                                         THEN sum - args.virtual_time ELSE sum
                    /\ \A order \in Permutations(DOMAIN stream_lines) :
                          time' = updater([k \in DOMAIN stream_lines |-> stream_lines[order[k]]],
                                          time, dt, flow_speed) ]_vars

\* a frame of a flow started without warm-up, with its callback alone, has
\* wrapped one of two lines and not the other
C18_Witness ==
    /\ last.op = "update"
    /\ ~last.warm_up
    /\ updaters = <<flow_animation>>
    /\ Len(stream_lines) = 2
    /\ time[1] = 0
    /\ time[2] > 0

\* end_animation has just returned one sequence per line, in line order,
\* each followed by a Create
OneSequencePerLine ==
    /\ Len(last.animations) = Len(stream_lines)
    /\ \A k \in DOMAIN stream_lines :
          /\ last.animations[k].line = stream_lines[k]
          /\ last.animations[k].followed_by = "Create"

\* sequence a is of the given kind and lasts num / flow_speed
Lasts(a, kind, num) ==
    /\ a.kind = kind
    /\ a.run_time[1] * flow_speed = num * a.run_time[2]

\* C19 as stated: a line of negative phase gets the hold sequence lasting
\* -phase / flow_speed, every line of phase >= 0, phase 0 included, the
\* finishing sequence lasting (virtual_time - phase) / flow_speed.
C19_WindDownBySign ==
    (last.op = "end_animation" /\ last.outcome = "ok") =>
        /\ OneSequencePerLine
        /\ \A k \in DOMAIN stream_lines :
              LET t == time[stream_lines[k]] IN
              IF t < 0 THEN Lasts(last.animations[k], "hold", -t)
              ELSE Lasts(last.animations[k], "finish", args.virtual_time - t)

\* C19, amended: a line of phase <= 0, phase 0 included, gets the hold
\* sequence lasting -phase / flow_speed, a line of phase > 0 the finishing
\* sequence lasting (virtual_time - phase) / flow_speed; one sequence per
\* line, each followed by a Create.
C19_WindDownByPositivePhase ==
    (last.op = "end_animation" /\ last.outcome = "ok") =>
        /\ OneSequencePerLine
        /\ \A k \in DOMAIN stream_lines :
              LET t == time[stream_lines[k]] IN
              IF t <= 0 THEN Lasts(last.animations[k], "hold", -t)
              ELSE Lasts(last.animations[k], "finish", args.virtual_time - t)

\* a flow was ended with one line at phase 0 and another at a positive phase
C19_Witness ==
    /\ last.op = "end_animation" /\ last.outcome = "ok"
    /\ \E i, j \in Lines : time[i] = 0 /\ time[j] > 0

\* C20: in any sequence of calls an end_animation succeeds exactly when
\* start_animation was called since construction or since the last
\* successful end_animation; every start_animation is accepted, also after
\* a successful end_animation, and makes the flow active again.
C20_ReentrantCycle ==
    /\ [][ EndStep => (last'.outcome = "ok" <=> last.started) ]_vars
    /\ [][ (last' # last /\ last'.op = "start_animation") =>
              (last'.outcome = "ok" /\ Flowing') ]_vars
    /\ [](last.started <=> Flowing)

\* the second start-end cycle on one container has ended successfully: no
\* callback is left, so each of the two starts was followed by its own end
C20_Witness ==
    /\ closures = 2
    /\ last.op = "end_animation" /\ last.outcome = "ok"
    /\ updaters = <<>>

\* C21: after any sequence of calls, start_animation during an active flow
\* included, exactly one callback is registered while the marker is set and
\* none while it is not, so a frame advances each phase once while Flowing
\* and not at all while Idle.
C21_OneCallbackIffFlowing ==
    /\ Flowing => Len(updaters) = 1
    /\ ~Flowing => updaters = <<>>

\* C22: ownership.  Once the sequences returned by end_animation have run to
\* completion, every stream line built by the constructor is still a child of
\* the container: the child list equals stream_lines.
C22_LinesStayChildren ==
    (last.op = "play" /\ last.outcome = "ok") => (submobjects = stream_lines)

----------------------------------------------------------------------------
(* Properties of the constructor, checked under SpecBuild *)

Built == pc = "built"

Seeds == start_points(args, ranges, rng)

\* the caller's range of axis j, before normalisation
CallerRange(j) ==
    IF j = 1 THEN args.x_range
    ELSE IF j = 2 THEN args.y_range
    ELSE IF args.z_range # <<>> THEN args.z_range ELSE <<0, 0>>

\* p is within the caller's [min, max] widened by padding, on every axis
\* lines 133-134: the step of a range as the caller wrote it, 0.5 when it
\* has two elements
StepOf(r) == IF Len(r) = 2 THEN DefaultStep(args) ELSE r[3]

WithinPadding(p) ==
    \A j \in 1..3 :
        /\ p[j] >= CallerRange(j)[1] - args.padding
        /\ p[j] <= CallerRange(j)[2] + args.padding

\* C6: every line has at most max_anchors_per_line + 1 points.
C6_AnchorBound ==
    Built => \A i \in Lines : Len(lines[i].points) <= args.max_anchors_per_line + 1

\* C7: a seed whose first step leaves the box gives no line: no line has a
\* one-point trajectory, and there are as many lines as seeds whose first
\* step stays in the box.
C7_DegenerateDropped ==
    Built =>
        /\ \A i \in Lines : Len(lines[i].trajectory) > 1
        /\ Len(lines) =
             Cardinality({k \in DOMAIN Seeds :
                            ~outside_box(EulerStep(args, Seeds[k]), ranges, args.padding)})

\* C8: every point an integration step appended is one Euler step from the
\* point before it and within range +- padding on every axis; a trajectory
\* shorter than the step budget ends right before a point outside the box,
\* and the line's points are projections of trajectory points.
C8_BoundaryContainment ==
    Built =>
        \A i \in Lines :
            LET tr == lines[i].trajectory IN
            /\ Len(tr) >= 1 /\ Len(tr) <= max_steps(args) + 1
            /\ \A n \in 2..Len(tr) :
                  /\ tr[n] = EulerStep(args, tr[n - 1])
                  /\ WithinPadding(tr[n])
            /\ (Len(tr) < max_steps(args) + 1 =>
                  ~WithinPadding(EulerStep(args, tr[Len(tr)])))
            /\ \A n \in DOMAIN lines[i].points :
                  \E m \in DOMAIN tr : lines[i].points[n] = proj(tr[m])

\* a trajectory cut at the boundary after at least one step
C8_Witness ==
    /\ Built
    /\ \E i \in Lines :
          /\ Len(lines[i].trajectory) > 1
          /\ Len(lines[i].trajectory) < max_steps(args) + 1

\* C9: a seed outside the padded box has no line.
C9_OutsideSeedDropped ==
    Built => \A i \in Lines : ~outside_box(lines[i].seed, ranges, args.padding)

\* C10: a line's duration is the number of integration steps of its own
\* trajectory times dt.
C10_DurationIsOwnSteps ==
    Built => \A i \in Lines : lines[i].duration = (Len(lines[i].trajectory) - 1) * args.dt

\* the new points the integration loop of line i tested (line 196)
Tested(i) ==
    LET tr == lines[i].trajectory
    IN  { EulerStep(args, tr[n]) : n \in {m \in 1..Len(tr) : m <= max_steps(args)} }

\* on every axis the points at and next to min - padding, max + padding
\* and the expanded upper bound + padding, the other coordinates at the
\* caller's minimum
Sweep ==
    LET lo == <<CallerRange(1)[1], CallerRange(2)[1], CallerRange(3)[1]>>
        marks(j) == { lo[j] - args.padding, CallerRange(j)[2] + args.padding,
                      ranges[j][2] + args.padding }
    IN  UNION { { [lo EXCEPT ![j] = b + e] : b \in marks(j), e \in -1..1 } :
                j \in 1..3 }

ProbePoints == Sweep \cup UNION { Tested(i) : i \in Lines }

\* below min - padding, or above the expanded upper bound + padding
BeyondExpanded(p) ==
    \E j \in 1..3 :
        \/ p[j] < CallerRange(j)[1] - args.padding
        \/ p[j] > ranges[j][2] + args.padding

\* C12 as stated: a point is outside iff on some axis it is below
\* min - padding or above the expanded upper bound (max + step) + padding.
C12_OutsideAgainstExpanded ==
    Built => \A p \in ProbePoints :
                outside_box(p, ranges, args.padding) <=> BeyondExpanded(p)

\* C12, amended: the stored upper bound is the expanded one (max + step) and
\* outside_box subtracts the step again, so a point is outside iff on some
\* axis it is below min - padding or above max + padding, min and max being
\* the caller's bounds; padding is added once on each side.
C12_OutsideAgainstCallerBounds ==
    Built =>
        /\ \A j \in 1..3 :
              /\ ranges[j][1] = CallerRange(j)[1]
              /\ ranges[j][2] = CallerRange(j)[2] + ranges[j][3]
        /\ \A p \in ProbePoints :
              outside_box(p, ranges, args.padding) <=> ~WithinPadding(p)

\* a trajectory was cut by a point that is above max + padding but not
\* above the expanded bound + padding
C12_Witness ==
    /\ Built
    /\ \E i \in Lines : \E q \in Tested(i) :
          /\ outside_box(q, ranges, args.padding)
          /\ ~BeyondExpanded(q)
          /\ Len(lines[i].trajectory) <= max_steps(args)

\* C17: with the field (1, 0), padding 0, 2D mode and the default jitter, a
\* line's integration ends only at a step that takes the point past the
\* right boundary: the point that ends it is outside on x and on no other
\* axis.
C17_ConstantFlowEndsAtRightBoundary ==
    (Built /\ args.func = "right" /\ args.padding = 0 /\ args.noise_factor = -1) =>
        \A i \in Lines : \A q \in Tested(i) :
            outside_box(q, ranges, args.padding) =>
                /\ q[1] > CallerRange(1)[2] + args.padding
                /\ \A j \in {2, 3} :
                      /\ q[j] >= CallerRange(j)[1] - args.padding
                      /\ q[j] <= CallerRange(j)[2] + args.padding

----------------------------------------------------------------------------
(* The sink scenario: f(x, y) = (-x, -y), dt = 0.05 *)

\* largest virtual_time of the scenario, in ticks of dt = 0.05
SinkTime == 4

\* Length 1 in the position units of the scenario.  Every seed is a
\* multiple of 1/8, and a step multiplies x and y by 19/20, so with units
\* of 1 / (8 * 20^n) the first n steps are exact.
SinkUnit == 8 * 20^(SinkTime + 1)

\* x_range = y_range = [-1, 1, 0.5], padding = 0.5, max_anchors_per_line = 5,
\* dt = 0.05 (one tick), 2D mode, default noise, the identity projection
SinkArgs ==
    [ unit                 : { SinkUnit },
      func                 : { "sink2d" },
      x_range              : { <<-SinkUnit, SinkUnit, SinkUnit \div 2>> },
      y_range              : { <<-SinkUnit, SinkUnit, SinkUnit \div 2>> },
      z_range              : { <<>> },
      noise_factor         : { -1 },
      n_repeats            : 1..MaxRepeats,
      dt                   : { 1 },
      virtual_time         : 1..SinkTime,
      max_anchors_per_line : { 5 },
      padding              : { SinkUnit \div 2 },
      proj                 : { "flat" } ]

InitSink ==
    /\ pc = "new"
    /\ args \in SinkArgs
    /\ Literals
    /\ rng \in Streams
    /\ np_state = [seed |-> 1, pos |-> 0]
    /\ builds = <<>>
    /\ ranges = <<>>
    /\ lines = <<>>
    /\ stream_lines = <<>>
    /\ Blank
    /\ last = NoCall("none")

SpecSink == InitSink /\ [][NextBuild]_vars

Abs(n) == IF n < 0 THEN -n ELSE n

\* q is closer to the origin than p: no coordinate is larger in size and
\* x or y is smaller
Closer(q, p) ==
    /\ Abs(q[1]) <= Abs(p[1]) /\ Abs(q[2]) <= Abs(p[2]) /\ Abs(q[3]) <= Abs(p[3])
    /\ Abs(q[1]) < Abs(p[1]) \/ Abs(q[2]) < Abs(p[2])

\* lines 160-171: the number of grid cells, one per value np.arange yields
\* from min up to max + step on each axis
GridCells ==
    LET n(r) == CeilDiv(r[2] - r[1], StepOf(r)) + 1
    IN  n(CallerRange(1)) * n(CallerRange(2)) * n(CallerRange(3))

\* C16: in the sink scenario every step of every trajectory that has not
\* started on the axis x = y = 0 brings the point closer to the origin, no
\* trajectory is truncated, and there are as many lines as grid cells times
\* n_repeats.
C16_SinkScenario ==
    Built =>
        /\ Len(lines) = GridCells * args.n_repeats
        /\ \A i \in Lines :
              LET tr == lines[i].trajectory IN
              /\ Len(tr) = max_steps(args) + 1
              /\ \A n \in 2..Len(tr) :
                    (tr[n - 1][1] # 0 \/ tr[n - 1][2] # 0) => Closer(tr[n], tr[n - 1])

\* the scenario was built with the longest virtual time and a seed off the
\* grid point of its cell
C16_Witness ==
    /\ Built
    /\ args.virtual_time = SinkTime
    /\ Len(lines) >= 25
    /\ \E i \in Lines :
          /\ lines[i].seed[1] % (SinkUnit \div 2) # 0
          /\ Len(lines[i].trajectory) = SinkTime + 2

----------------------------------------------------------------------------
(* Range lists the caller keeps: one list for several axes, or the same   *)
(* lists for a second build                                                *)

MaxObjects == 2

\* the values the caller writes into a range list
RangeLists == { <<0, 0>>, <<-4, 0, 4>> }

\* the other arguments; x_range and y_range count where a literal is passed
RangeArgs ==
    { a \in ArgSpace :
        /\ a.func = "right" /\ a.noise_factor = 0 /\ a.n_repeats = 1
        /\ a.dt = 1 /\ a.virtual_time = 2
        /\ a.max_anchors_per_line = 1 /\ a.padding = 2 }

\* a caller that holds range lists and passes any of them, or a literal,
\* as x_range and as y_range; 2D mode, no z_range is passed
InitRanges ==
    /\ pc = "new"
    /\ args \in RangeArgs
    /\ heap \in [1..MaxObjects -> RangeLists]
    /\ refs \in { rf \in [1..3 -> 0..MaxObjects] : rf[3] = 0 }
    /\ rng = [k \in 1..RngPeriod |-> 0]
    /\ np_state = [seed |-> 1, pos |-> 0]
    /\ builds = <<>>
    /\ ranges = <<>>
    /\ lines = <<>>
    /\ stream_lines = <<>>
    /\ Blank
    /\ last = NoCall("none")

\* under SpecRanges a Rebuild passes the same objects again
NextRanges == Construct \/ Rebuild

SpecRanges == InitRanges /\ [][NextRanges]_vars

\* the range the caller wrote for axis j: the literal, or the list object as
\* it was before the first build
CallerList(j) ==
    IF refs[j] = 0 THEN CallerRange(j) ELSE builds[1].heap[refs[j]]

\* C23: normalisation adds the step to each axis's upper bound exactly once
\* per build: after every build the upper bound of every axis is the
\* caller's max + step (step 0.5 for a 2-element range), also when one list
\* object is passed for two axes or the same objects are passed to a second
\* build.
C23_StepAddedOncePerBuild ==
    Built => \A j \in 1..3 :
                ranges[j][2] = CallerList(j)[2] + StepOf(CallerList(j))

\* the same, for builds in which no two axes share a list object
C23_StepAddedOnceWithoutSharing ==
    (Built /\ \A i, j \in 1..3 : (i # j /\ refs[i] # 0) => refs[i] # refs[j]) =>
        \A j \in 1..3 : ranges[j][2] = CallerList(j)[2] + StepOf(CallerList(j))

\* the same, for first builds only
C23_StepAddedOnceInFirstBuild ==
    (Built /\ Len(builds) = 1) =>
        \A j \in 1..3 : ranges[j][2] = CallerList(j)[2] + StepOf(CallerList(j))

\* the same, for first builds in which no two axes share a list object
C23_StepAddedOnceToOwnLists ==
    (/\ Built /\ Len(builds) = 1
     /\ \A i, j \in 1..3 : (i # j /\ refs[i] # 0) => refs[i] # refs[j]) =>
        \A j \in 1..3 : ranges[j][2] = CallerList(j)[2] + StepOf(CallerList(j))

====
